---------------------------- MODULE Spec2Model ----------------------------
(***************************************************************************)
(* A model of python/triqs/operators/util/U_matrix.py: the functions that  *)
(* construct Coulomb interaction tensors.  The library is a set of pure    *)
(* functions; the state of the model is one call: the function called, its *)
(* arguments and what the call produced (a value or a raised exception).   *)
(*                                                                         *)
(* Python floats and complex numbers are modelled by exact numbers of the  *)
(* field Q(i, sqrt 2, sqrt 3, ...): finite sums  c_r * sqrt(r)  over       *)
(* square-free integers r (sqrt(-1) = i), with rational coefficients c_r.  *)
(* Rounding is therefore outside the model.                                *)
(***************************************************************************)
EXTENDS Integers, Sequences, FiniteSets, TLC

\* fn: the function called ("none" before any call); args: its arguments;
\* ret: what the call produced; origin: the call whose result was passed on
\* as an argument of this one (None when the arguments were given afresh)
VARIABLES fn, args, ret, origin

vars == <<fn, args, ret, origin>>

(***************************************************************************)
(* Bounds of the model.                                                    *)
(***************************************************************************)
\* largest angular momentum j drawn for three_j_symbol / clebsch_gordan
MaxJ == 2

\* largest shell l drawn for the conversions and for spherical_to_cubic
MaxShell == 4

\* largest number of orbitals drawn for U_matrix_kanamori
MaxOrb == 3

\* number of distinct input arrays drawn per rank for the submatrix functions
MaxSeed == 4

\* largest shell l drawn for U_matrix_slater
MaxSlaterL == 1

(***************************************************************************)
(* Python's None for optional arguments, and the outcome of a call.        *)
(***************************************************************************)
\* an optional argument is None or Some(x); Val takes x out of Some(x)
None == << >>

Some(x) == <<x>>

Val(o) == o[1]

Returned(v) == [status |-> "ok", value |-> v]

Raised(exc, where) == [status |-> exc, value |-> where]

(***************************************************************************)
(* Exact arithmetic: rationals [n, d] in lowest terms, d > 0.              *)
(***************************************************************************)
Abs(x) == IF x < 0 THEN -x ELSE x

RECURSIVE GCD(_, _)
GCD(a, b) == IF b = 0 THEN a ELSE GCD(b, a % b)

\* n/d in lowest terms; a zero denominator (a division by zero) is kept as d = 0
Rat(n, d) ==
    IF d = 0 THEN [n |-> 1, d |-> 0]
    ELSE LET g == GCD(Abs(n), Abs(d))
             s == IF d < 0 THEN -1 ELSE 1
         IN  [n |-> s * (n \div g), d |-> s * (d \div g)]

R0 == [n |-> 0, d |-> 1]

R1 == [n |-> 1, d |-> 1]

RatInt(k) == [n |-> k, d |-> 1]

RatNeg(p) == [n |-> -p.n, d |-> p.d]

RatAdd(p, q) ==
    LET g == GCD(p.d, q.d)
    IN  Rat(p.n * (q.d \div g) + q.n * (p.d \div g), (p.d \div g) * q.d)

\* cross-cancel before multiplying, so that the products stay small
RatMul(p, q) ==
    IF p.n = 0 \/ q.n = 0 THEN R0
    ELSE LET g1 == GCD(Abs(p.n), q.d)
             g2 == GCD(Abs(q.n), p.d)
         IN  Rat((p.n \div g1) * (q.n \div g2), (p.d \div g2) * (q.d \div g1))

RatDiv(p, q) == RatMul(p, IF q.n < 0 THEN [n |-> -q.d, d |-> -q.n] ELSE [n |-> q.d, d |-> q.n])

(***************************************************************************)
(* Exact numbers: a function from square-free integers r # 0 to non-zero   *)
(* rational coefficients, standing for the sum of c_r * sqrt(r), where     *)
(* sqrt(-r) = i * sqrt(r).  The representation is canonical: two numbers   *)
(* are equal iff their representations are.                                *)
(***************************************************************************)
NZero == [r \in {} |-> R0]

NTerm(r, c) == IF c.n = 0 THEN NZero ELSE [x \in {r} |-> c]

NRat(c) == NTerm(1, c)

NInt(k) == NTerm(1, RatInt(k))

NOne == NInt(1)

\* the imaginary unit 1j
NImag == NTerm(-1, R1)

NCoef(a, r) == IF r \in DOMAIN a THEN a[r] ELSE R0

NAdd(a, b) ==
    IF DOMAIN a = {} THEN b
    ELSE IF DOMAIN b = {} THEN a
    ELSE LET nz == {r \in (DOMAIN a) \cup (DOMAIN b) : RatAdd(NCoef(a, r), NCoef(b, r)).n # 0}
         IN  [r \in nz |-> RatAdd(NCoef(a, r), NCoef(b, r))]

NScale(c, a) == IF c.n = 0 THEN NZero ELSE [r \in DOMAIN a |-> RatMul(c, a[r])]

NNeg(a) == [r \in DOMAIN a |-> RatNeg(a[r])]

NSub(a, b) == NAdd(a, NNeg(b))

\* sqrt(r1) * sqrt(r2) = c * sqrt(r) for square-free r1, r2
NRadMul(r1, r2) ==
    LET g == GCD(Abs(r1), Abs(r2))
        m == (Abs(r1) \div g) * (Abs(r2) \div g)
    IN  [rad  |-> IF (r1 < 0) # (r2 < 0) THEN -m ELSE m,
         coef |-> IF r1 < 0 /\ r2 < 0 THEN -g ELSE g]

RECURSIVE NMulSum(_, _, _)
NMulSum(pairs, a, b) ==
    IF pairs = {} THEN NZero
    ELSE LET p  == CHOOSE q \in pairs : TRUE
             rm == NRadMul(p[1], p[2])
         IN  NAdd(NTerm(rm.rad, RatMul(RatInt(rm.coef), RatMul(a[p[1]], b[p[2]]))),
                  NMulSum(pairs \ {p}, a, b))

NMul(a, b) ==
    IF DOMAIN a = {} \/ DOMAIN b = {} THEN NZero
    ELSE NMulSum((DOMAIN a) \X (DOMAIN b), a, b)

\* complex conjugate: the terms with a negative radicand are the imaginary ones
NConj(a) == [r \in DOMAIN a |-> IF r < 0 THEN RatNeg(a[r]) ELSE a[r]]

\* the real part (.real)
NReal(a) == [r \in {x \in DOMAIN a : x > 0} |-> a[r]]

\* the largest f with f*f dividing n (n > 0), by trial division from p
RECURSIVE SquarePart(_, _)
SquarePart(n, p) ==
    IF p * p > n THEN 1
    ELSE IF n % (p * p) = 0 THEN p * SquarePart(n \div (p * p), p)
    ELSE IF n % p = 0 THEN SquarePart(n \div p, p + 1)
    ELSE SquarePart(n, p + 1)

\* math.sqrt of a rational q >= 0
NSqrt(q) ==
    IF q.n = 0 THEN NZero
    ELSE LET f1 == SquarePart(q.n, 2)
             f2 == SquarePart(q.d, 2)
             r1 == q.n \div (f1 * f1)
             r2 == q.d \div (f2 * f2)
         IN  NTerm(r1 * r2, Rat(f1, f2 * r2))

(***************************************************************************)
(* scipy.special.factorial, imported as fact: n! for n >= 0 and 0 for a    *)
(* negative argument.                                                      *)
(***************************************************************************)
RECURSIVE fact(_)
fact(n) == IF n < 0 THEN 0 ELSE IF n = 0 THEN 1 ELSE n * fact(n - 1)

\* Python's  -1.0 if x % 2 else 1.0
Parity(x) == IF x % 2 # 0 THEN -1 ELSE 1

(***************************************************************************)
(* three_j_symbol(jm1, jm2, jm3)                                           *)
(***************************************************************************)
\* the selection rules that make the symbol vanish
ThreeJVanishes(j1, m1, j2, m2, j3, m3) ==
    \/ m1 + m2 + m3 # 0
    \/ m1 < -j1 \/ m1 > j1
    \/ m2 < -j2 \/ m2 > j2
    \/ m3 < -j3 \/ m3 > j3
    \/ j3 > j1 + j2
    \/ j3 < Abs(j1 - j2)

Max3(a, b, c) == IF a >= b /\ a >= c THEN a ELSE IF b >= c THEN b ELSE c

Min3(a, b, c) == IF a <= b /\ a <= c THEN a ELSE IF b <= c THEN b ELSE c

\* the lower bound taken without the 0 of max(j2-j3-m1, j1-j3+m2, 0)
t_minUnclamped(j1, m1, j2, m2, j3, m3) == Max3(j2 - j3 - m1, j1 - j3 + m2, j2 - j3 - m1)

t_min(j1, m1, j2, m2, j3, m3) == Max3(j2 - j3 - m1, j1 - j3 + m2, 0)

t_max(j1, m1, j2, m2, j3, m3) == Min3(j1 - m1, j2 + m2, j1 + j2 - j3)

\* one term of the sum over t
TTerm(t, j1, m1, j2, m2, j3, m3) ==
    Rat(Parity(t),
        fact(t) * fact(j3 - j2 + m1 + t) * fact(j3 - j1 - m2 + t)
          * fact(j1 + j2 - j3 - t) * fact(j1 - m1 - t) * fact(j2 + m2 - t))

RECURSIVE TSumFrom(_, _, _, _, _, _, _, _)
TSumFrom(t, hi, j1, m1, j2, m2, j3, m3) ==
    IF t > hi THEN R0
    ELSE RatAdd(TTerm(t, j1, m1, j2, m2, j3, m3),
                TSumFrom(t + 1, hi, j1, m1, j2, m2, j3, m3))

t_sum(j1, m1, j2, m2, j3, m3) ==
    TSumFrom(t_min(j1, m1, j2, m2, j3, m3), t_max(j1, m1, j2, m2, j3, m3),
             j1, m1, j2, m2, j3, m3)

\* sqrt(fact(j1+j2-j3)*fact(j1-j2+j3)*fact(-j1+j2+j3)/fact(j1+j2+j3+1))
TrianglePrefactor(j1, j2, j3) ==
    NSqrt(Rat(fact(j1 + j2 - j3) * fact(j1 - j2 + j3) * fact(-j1 + j2 + j3),
              fact(j1 + j2 + j3 + 1)))

\* sqrt(fact(j1-m1)*fact(j1+m1)*fact(j2-m2)*fact(j2+m2)*fact(j3-m3)*fact(j3+m3))
MPrefactor(j1, m1, j2, m2, j3, m3) ==
    NMul(NSqrt(RatInt(fact(j1 - m1) * fact(j1 + m1))),
         NMul(NSqrt(RatInt(fact(j2 - m2) * fact(j2 + m2))),
              NSqrt(RatInt(fact(j3 - m3) * fact(j3 + m3)))))

three_j_symbol(j1, m1, j2, m2, j3, m3) ==
    IF ThreeJVanishes(j1, m1, j2, m2, j3, m3) THEN NZero
    ELSE NScale(RatMul(RatInt(Parity(j1 - j2 - m3)), t_sum(j1, m1, j2, m2, j3, m3)),
                NMul(TrianglePrefactor(j1, j2, j3), MPrefactor(j1, m1, j2, m2, j3, m3)))

\* the arguments three_j_symbol passes to fact: those of the square root of
\* the triangle coefficient,
TriangleArguments(j1, j2, j3) ==
    {j1 + j2 - j3, j1 - j2 + j3, -j1 + j2 + j3, j1 + j2 + j3 + 1}

\* those of the square root over the j and m,
MArguments(j1, m1, j2, m2, j3, m3) ==
    {j1 - m1, j1 + m1, j2 - m2, j2 + m2, j3 - m3, j3 + m3}

\* those of the term t of the sum,
TArguments(t, j1, m1, j2, m2, j3, m3) ==
    {t, j3 - j2 + m1 + t, j3 - j1 - m2 + t, j1 + j2 - j3 - t, j1 - m1 - t, j2 + m2 - t}

\* and all of them in one call: none when the call returns .0 at once
FactorialArguments(j1, m1, j2, m2, j3, m3) ==
    IF ThreeJVanishes(j1, m1, j2, m2, j3, m3) THEN {}
    ELSE TriangleArguments(j1, j2, j3)
         \cup MArguments(j1, m1, j2, m2, j3, m3)
         \cup UNION {TArguments(t, j1, m1, j2, m2, j3, m3) :
                         t \in t_min(j1, m1, j2, m2, j3, m3) .. t_max(j1, m1, j2, m2, j3, m3)}

(***************************************************************************)
(* clebsch_gordan(jm1, jm2, jm3)                                           *)
(***************************************************************************)
\* -1 if jm1[0]-jm2[0]+jm3[1] % 2 else 1 : % binds tighter than + and -
CGPhase(j1, j2, m3) == IF j1 - j2 + (m3 % 2) # 0 THEN -1 ELSE 1

clebsch_gordan(j1, m1, j2, m2, j3, m3) ==
    NMul(NScale(RatInt(CGPhase(j1, j2, m3)), NSqrt(RatInt(2 * j3 + 1))),
         three_j_symbol(j1, m1, j2, m2, j3, -m3))

(***************************************************************************)
(* numpy arrays: a shape and a function of the 0-based index tuples.       *)
(***************************************************************************)
RECURSIVE Indices(_)
Indices(shape) ==
    IF shape = << >> THEN {<< >>}
    ELSE {<<i>> \o t : i \in 0 .. (shape[1] - 1), t \in Indices(Tail(shape))}

Array(shape, f) == [shape |-> shape, at |-> [t \in Indices(shape) |-> f[t]]]

\* np.zeros(shape)
Zeros(shape) == [shape |-> shape, at |-> [t \in Indices(shape) |-> NZero]]

(***************************************************************************)
(* U_J_to_radial_integrals(l, U_int, J_hund)                               *)
(***************************************************************************)
\* a slip in the l = 2 ratio: the 1.0 of (1.0 + 0.63) left out
F2OverJ_dSlip == RatDiv(RatInt(14), Rat(63, 100))

\* F[1] for l = 2:  J_hund * 14.0 / (1.0 + 0.63)
F2OverJ_d == RatDiv(RatInt(14), RatAdd(R1, Rat(63, 100)))

\* F[1] for l = 3:  6435.0 * J_hund / (286.0 + 195.0*451.0/675.0 + 250.0*1001.0/2025.0)
F2OverJ_f ==
    RatDiv(RatInt(6435),
           RatAdd(RatInt(286),
                  RatAdd(RatDiv(RatInt(195 * 451), RatInt(675)),
                         RatDiv(RatInt(250 * 1001), RatInt(2025)))))

U_J_to_radial_integrals(l, U_int, J_hund) ==
    IF l + 1 < 0 THEN Raised("ValueError", "np.zeros")
    ELSE IF l = 1 THEN Returned(<<U_int, NScale(RatInt(5), J_hund)>>)
    ELSE IF l = 2 THEN
        LET F1 == NScale(F2OverJ_d, J_hund)
        IN  Returned(<<U_int, F1, NScale(Rat(630, 1000), F1)>>)
    ELSE IF l = 3 THEN
        LET F1 == NScale(F2OverJ_f, J_hund)
        IN  Returned(<<U_int, F1, NScale(Rat(451, 675), F1), NScale(Rat(1001, 2025), F1)>>)
    ELSE Raised("ValueError", "U_J_to_radial_integrals: implemented only for l=1,2,3")

(***************************************************************************)
(* radial_integrals_to_U_J(l, F).  F is a sequence; F[0] is F[1] here.     *)
(***************************************************************************)
radial_integrals_to_U_J(l, F) ==
    IF l \in {1, 2, 3} /\ Len(F) < 2 THEN Raised("IndexError", "F[1]")
    ELSE IF l = 1 THEN Returned(<<F[1], NScale(Rat(1, 5), F[2])>>)
    ELSE IF l = 2 THEN Returned(<<F[1], NScale(RatDiv(RatAdd(R1, Rat(63, 100)), RatInt(14)), F[2])>>)
    ELSE IF l = 3 THEN
        Returned(<<F[1],
                   NScale(RatDiv(RatAdd(RatInt(286),
                                        RatAdd(RatDiv(RatInt(195 * 451), RatInt(675)),
                                               RatDiv(RatInt(250 * 1001), RatInt(2025)))),
                                 RatInt(6435)),
                          F[2])>>)
    ELSE Raised("ValueError", "radial_integrals_to_U_J: implemented only for l=1,2,3")

(***************************************************************************)
(* reduce_4index_to_2index(U_4index)                                       *)
(***************************************************************************)
\* U[m,mp] = U_4index[m,mp,m,mp].real - U_4index[m,mp,mp,m].real
ReduceSameSpin(U_4index, m, mp) ==
    NSub(NReal(U_4index.at[<<m, mp, m, mp>>]), NReal(U_4index.at[<<m, mp, mp, m>>]))

\* Uprime[m,mp] = U_4index[m,mp,m,mp].real
ReduceOppositeSpin(U_4index, m, mp) == NReal(U_4index.at[<<m, mp, m, mp>>])

reduce_4index_to_2index(U_4index) ==
    LET size == U_4index.shape[1]
    IN  Returned(<<Array(<<size, size>>,
                         [t \in Indices(<<size, size>>) |-> ReduceSameSpin(U_4index, t[1], t[2])]),
                   Array(<<size, size>>,
                         [t \in Indices(<<size, size>>) |-> ReduceOppositeSpin(U_4index, t[1], t[2])])>>)

(***************************************************************************)
(* U_matrix_kanamori(n_orb, U_int, J_hund, Up_int, full_Uijkl, Jc_hund)    *)
(***************************************************************************)
\* Up_int defaults to U_int - 2*J_hund
DefaultUp(U_int, J_hund, Up_int) ==
    IF Up_int = None THEN NSub(U_int, NScale(RatInt(2), J_hund)) ELSE Val(Up_int)

\* Jc_hund defaults to J_hund
DefaultJc(J_hund, Jc_hund) == IF Jc_hund = None THEN J_hund ELSE Val(Jc_hund)

\* the two-index matrices: same spin, opposite spin
KanamoriU(m, mp, U_int, J_hund, Up) == IF m = mp THEN NZero ELSE NSub(Up, J_hund)

KanamoriUprime(m, mp, U_int, J_hund, Up) == IF m = mp THEN U_int ELSE Up

\* a slip in the order of the patterns: Uijij tested before Uiiii
KanamoriUijklPairFirst(i, j, k, l, U_int, J_hund, Up, Jc) ==
    IF i = k /\ j = l THEN Up
    ELSE IF i = j /\ j = k /\ k = l THEN U_int
    ELSE IF i = l /\ j = k THEN J_hund
    ELSE IF i = j /\ k = l THEN Jc
    ELSE NZero

\* the four-index tensor: the first pattern that matches decides the entry
KanamoriUijkl(i, j, k, l, U_int, J_hund, Up, Jc) ==
    IF i = j /\ j = k /\ k = l THEN U_int
    ELSE IF i = k /\ j = l THEN Up
    ELSE IF i = l /\ j = k THEN J_hund
    ELSE IF i = j /\ k = l THEN Jc
    ELSE NZero

U_matrix_kanamori(n_orb, U_int, J_hund, Up_int, full_Uijkl, Jc_hund) ==
    IF Jc_hund # None /\ ~full_Uijkl
    THEN Raised("ValueError", "Jc_hund can only be specified if the full four index tensor is returned")
    ELSE LET Up == DefaultUp(U_int, J_hund, Up_int)
             Jc == DefaultJc(J_hund, Jc_hund)
         IN  IF ~full_Uijkl
             THEN Returned(<<Array(<<n_orb, n_orb>>,
                                   [t \in Indices(<<n_orb, n_orb>>) |->
                                       KanamoriU(t[1], t[2], U_int, J_hund, Up)]),
                             Array(<<n_orb, n_orb>>,
                                   [t \in Indices(<<n_orb, n_orb>>) |->
                                       KanamoriUprime(t[1], t[2], U_int, J_hund, Up)])>>)
             ELSE Returned(Array(<<n_orb, n_orb, n_orb, n_orb>>,
                                 [t \in Indices(<<n_orb, n_orb, n_orb, n_orb>>) |->
                                     KanamoriUijkl(t[1], t[2], t[3], t[4], U_int, J_hund, Up, Jc)]))

(***************************************************************************)
(* subarray(a, idxlist, n): a[..., idxlist[n]] on axis n, then the axes    *)
(* before it.  Axes are numbered from 0 as in the code; idxlist[n] is      *)
(* idxlist[n + 1] here.                                                    *)
(***************************************************************************)
\* a[tuple(slice(x) for x in a.shape[:n]) + (idxlist[n],)]
TakeAxis(a, idx, n) ==
    LET shape == [a.shape EXCEPT ![n + 1] = Len(idx)]
    IN  [shape |-> shape,
         at    |-> [t \in Indices(shape) |-> a.at[[t EXCEPT ![n + 1] = idx[t[n + 1] + 1]]]]]

RECURSIVE subarray(_, _, _)
subarray(a, idxlist, n) ==
    LET sa == TakeAxis(a, idxlist[n + 1], n)
    IN  IF n > 0 THEN subarray(sa, idxlist, n - 1) ELSE sa

\* len(U.shape)*[idx]
Repeat(idx, rank) == [k \in 1 .. rank |-> idx]

(***************************************************************************)
(* t2g_submatrix(U, convention), eg_submatrix(U, convention)               *)
(***************************************************************************)
Conventions == {"wien2k", "wannier90", "triqs", "vasp", "qe"}

\* a slip in the table: the triqs tuple used for every known convention
T2gIndexTriqsOnly(convention) ==
    IF convention \in Conventions THEN <<0, 1, 3>> ELSE None

\* the per-axis index tuple of each convention (None: unknown convention)
T2gIndex(convention) ==
    IF convention = "wien2k" THEN <<2, 3, 4>>
    ELSE IF convention = "wannier90" \/ convention = "qe" THEN <<1, 2, 4>>
    ELSE IF convention = "triqs" \/ convention = "vasp" THEN <<0, 1, 3>>
    ELSE None

EgIndex(convention) ==
    IF convention = "wien2k" THEN <<0, 1>>
    ELSE IF convention = "wannier90" \/ convention = "qe" THEN <<0, 3>>
    ELSE IF convention = "triqs" \/ convention = "vasp" THEN <<2, 4>>
    ELSE None

t2g_submatrix(U, convention) ==
    IF T2gIndex(convention) = None THEN Raised("ValueError", "Unknown convention")
    ELSE Returned(subarray(U, Repeat(T2gIndex(convention), Len(U.shape)), Len(U.shape) - 1))

eg_submatrix(U, convention) ==
    IF EgIndex(convention) = None THEN Raised("ValueError", "Unknown convention")
    ELSE Returned(subarray(U, Repeat(EgIndex(convention), Len(U.shape)), Len(U.shape) - 1))

(***************************************************************************)
(* spherical_to_cubic(l, convention)                                       *)
(***************************************************************************)
\* 1.0/sqrt(2) and 1j/sqrt(2)
InvSqrt2 == NSqrt(Rat(1, 2))

ImagInvSqrt2 == NMul(NImag, InvSqrt2)

\* the ordering of the cubic harmonics for l = 2 (the docstring; cubic_names)
CubicNamesD(convention) ==
    IF convention = "wien2k" THEN <<"z^2", "x^2-y^2", "xy", "yz", "xz">>
    ELSE IF convention = "wannier90" \/ convention = "qe" THEN <<"z^2", "xz", "yz", "x^2-y^2", "xy">>
    ELSE <<"xy", "yz", "z^2", "xz", "x^2-y^2">>

\* the entries the code assigns; every other entry keeps the 0 of np.zeros
CubicEntries(l, convention) ==
    IF l = 0 THEN << >>
    ELSE IF l = 1 THEN
        (<<0, 0>> :> InvSqrt2 @@ <<0, 2>> :> NNeg(InvSqrt2) @@
         <<1, 0>> :> ImagInvSqrt2 @@ <<1, 2>> :> ImagInvSqrt2 @@
         <<2, 1>> :> NOne)
    ELSE IF l = 2 /\ convention = "wien2k" THEN
        (<<0, 2>> :> NOne @@
         <<1, 0>> :> InvSqrt2 @@ <<1, 4>> :> InvSqrt2 @@
         <<2, 0>> :> NNeg(InvSqrt2) @@ <<2, 4>> :> InvSqrt2 @@
         <<3, 1>> :> InvSqrt2 @@ <<3, 3>> :> NNeg(InvSqrt2) @@
         <<4, 1>> :> InvSqrt2 @@ <<4, 3>> :> InvSqrt2)
    ELSE IF l = 2 /\ (convention = "wannier90" \/ convention = "qe") THEN
        (<<0, 2>> :> NOne @@ <<1, 1>> :> InvSqrt2 @@
         <<1, 3>> :> NNeg(InvSqrt2) @@ <<2, 1>> :> ImagInvSqrt2 @@
         <<2, 3>> :> ImagInvSqrt2 @@ <<3, 0>> :> InvSqrt2 @@
         <<3, 4>> :> InvSqrt2 @@ <<4, 0>> :> ImagInvSqrt2 @@
         <<4, 4>> :> NNeg(ImagInvSqrt2))
    ELSE IF l = 2 THEN
        (<<0, 0>> :> ImagInvSqrt2 @@ <<0, 4>> :> NNeg(ImagInvSqrt2) @@
         <<1, 1>> :> ImagInvSqrt2 @@ <<1, 3>> :> ImagInvSqrt2 @@
         <<2, 2>> :> NOne @@
         <<3, 1>> :> InvSqrt2 @@ <<3, 3>> :> NNeg(InvSqrt2) @@
         <<4, 0>> :> InvSqrt2 @@ <<4, 4>> :> InvSqrt2)
    ELSE
        (<<0, 0>> :> InvSqrt2 @@ <<0, 6>> :> NNeg(InvSqrt2) @@
         <<1, 1>> :> InvSqrt2 @@ <<1, 5>> :> InvSqrt2 @@
         <<2, 2>> :> InvSqrt2 @@ <<2, 4>> :> NNeg(InvSqrt2) @@
         <<3, 3>> :> NOne @@
         <<4, 2>> :> ImagInvSqrt2 @@ <<4, 4>> :> ImagInvSqrt2 @@
         <<5, 1>> :> ImagInvSqrt2 @@ <<5, 5>> :> NNeg(ImagInvSqrt2) @@
         <<6, 0>> :> ImagInvSqrt2 @@ <<6, 6>> :> ImagInvSqrt2)

spherical_to_cubic(l, convention) ==
    IF convention \notin Conventions THEN Raised("ValueError", "Unknown convention")
    ELSE IF 2 * l + 1 < 0 THEN Raised("ValueError", "np.zeros")
    ELSE IF convention \in {"wien2k", "wannier90", "qe"} /\ l # 2
    THEN Raised("ValueError", "spherical_to_cubic: [wien2k, wannier90, qe] convention implemented only for l=2")
    ELSE IF l \in {0, 1, 2, 3}
    THEN LET size == 2 * l + 1
             E    == CubicEntries(l, convention)
         IN  Returned([shape |-> <<size, size>>,
                       at    |-> [t \in Indices(<<size, size>>) |->
                                     IF t \in DOMAIN E THEN E[t] ELSE NZero]])
    ELSE Raised("ValueError", "spherical_to_cubic: implemented only for l=0,1,2,3")

(***************************************************************************)
(* angular_matrix_element(l, k, m1, m2, m3, m4)                            *)
(***************************************************************************)
\* the loop over q in range(-k, k+1)
RECURSIVE AngularSumFrom(_, _, _, _, _, _, _)
AngularSumFrom(q, l, k, m1, m2, m3, m4) ==
    IF q > k THEN NZero
    ELSE NAdd(NScale(RatInt(Parity(m1 + q + m2)),
                     NMul(three_j_symbol(l, -m1, k, q, l, m3),
                          three_j_symbol(l, -m2, k, -q, l, m4))),
              AngularSumFrom(q + 1, l, k, m1, m2, m3, m4))

\* the loop taken over range(0, k+1) instead of range(-k, k+1)
angular_matrix_elementHalfRange(l, k, m1, m2, m3, m4) ==
    NMul(AngularSumFrom(0, l, k, m1, m2, m3, m4),
         NScale(RatInt((2 * l + 1) * (2 * l + 1)),
                NMul(three_j_symbol(l, 0, k, 0, l, 0), three_j_symbol(l, 0, k, 0, l, 0))))

angular_matrix_element(l, k, m1, m2, m3, m4) ==
    NMul(AngularSumFrom(-k, l, k, m1, m2, m3, m4),
         NScale(RatInt((2 * l + 1) * (2 * l + 1)),
                NMul(three_j_symbol(l, 0, k, 0, l, 0), three_j_symbol(l, 0, k, 0, l, 0))))

(***************************************************************************)
(* transform_U_matrix(U_matrix, T):                                        *)
(* np.einsum("ij,kl,jlmo,mn,op", conj(T), conj(T), U, T^T, T^T), that is   *)
(* out[i,k,n,p] = sum_{j,l,m,o} conj(T[i,j]) conj(T[k,l]) U[j,l,m,o]       *)
(*                              T[n,m] T[p,o],                             *)
(* summed one index after the other.                                       *)
(***************************************************************************)
RECURSIVE EinsumO(_, _, _, _, _, _, _)
EinsumO(U, T, j, l, m, p, o) ==
    IF o >= T.shape[2] THEN NZero
    ELSE NAdd(NMul(T.at[<<p, o>>], U.at[<<j, l, m, o>>]), EinsumO(U, T, j, l, m, p, o + 1))

RECURSIVE EinsumM(_, _, _, _, _, _, _)
EinsumM(U, T, j, l, n, p, m) ==
    IF m >= T.shape[2] THEN NZero
    ELSE NAdd(NMul(T.at[<<n, m>>], EinsumO(U, T, j, l, m, p, 0)), EinsumM(U, T, j, l, n, p, m + 1))

RECURSIVE EinsumL(_, _, _, _, _, _, _)
EinsumL(U, T, j, k, n, p, l) ==
    IF l >= T.shape[2] THEN NZero
    ELSE NAdd(NMul(NConj(T.at[<<k, l>>]), EinsumM(U, T, j, l, n, p, 0)),
              EinsumL(U, T, j, k, n, p, l + 1))

RECURSIVE EinsumJ(_, _, _, _, _, _, _)
EinsumJ(U, T, i, k, n, p, j) ==
    IF j >= T.shape[2] THEN NZero
    ELSE NAdd(NMul(NConj(T.at[<<i, j>>]), EinsumL(U, T, j, k, n, p, 0)),
              EinsumJ(U, T, i, k, n, p, j + 1))

transform_U_matrix(U_matrix, T) ==
    LET d == T.shape[1]
    IN  Array(<<d, d, d, d>>,
              [t \in Indices(<<d, d, d, d>>) |-> EinsumJ(U_matrix, T, t[1], t[2], t[3], t[4], 0)])

(***************************************************************************)
(* U_matrix_slater(l, radial_integrals, U_int, J_hund, basis, T)           *)
(* An outcome also tells whether the warning was printed.                  *)
(***************************************************************************)
SlaterRaised(exc, where, warned) == [status |-> exc, value |-> where, warning |-> warned]

SlaterReturned(v, warned) == [status |-> "ok", value |-> v, warning |-> warned]

\* the outcome r of a callee as the new value of an optional variable
SomeOf(r) == IF r.status = "ok" THEN Returned(Some(r.value)) ELSE r

\* radial_integrals is None and (U_int is None and J_hund is None)
MissingIntegrals(radial_integrals, U_int, J_hund) ==
    radial_integrals = None /\ (U_int = None /\ J_hund = None)

\* U_int is not None and J_hund is not None
BothGiven(U_int, J_hund) == U_int # None /\ J_hund # None

\* the comparison made against l, not against l + 1
LengthInconsistentOffByOne(l, radial_integrals) == Len(radial_integrals) # l

\* len(radial_integrals)-1 != l
LengthInconsistent(l, radial_integrals) == Len(radial_integrals) - 1 # l

\* (radial_integrals - U_J_to_radial_integrals(l, U_int, J_hund)).any() != 0.0
IntegralsDiffer(radial_integrals, derived) ==
    \E n \in 1 .. Len(radial_integrals) : NSub(radial_integrals[n], derived[n]) # NZero

\* the integrals derived whenever U_int and J_hund are given, supplied
\* radial_integrals or not
IntegralsAlwaysDerived(l, radial_integrals, U_int, J_hund) ==
    IF BothGiven(U_int, J_hund)
    THEN SomeOf(U_J_to_radial_integrals(l, Val(U_int), Val(J_hund)))
    ELSE Returned(radial_integrals)

\* radial_integrals after line 88: derived from U_int and J_hund when it is
\* None and both are given (or the exception the conversion raises)
IntegralsOrDerived(l, radial_integrals, U_int, J_hund) ==
    IF radial_integrals = None /\ BothGiven(U_int, J_hund)
    THEN SomeOf(U_J_to_radial_integrals(l, Val(U_int), Val(J_hund)))
    ELSE Returned(radial_integrals)

\* the comparison with the outcome "derived" of U_J_to_radial_integrals
WarnIfDifferent(radial_integrals, derived) ==
    IF derived.status # "ok" THEN SlaterRaised(derived.status, derived.value, FALSE)
    ELSE SlaterReturned(radial_integrals, IntegralsDiffer(Val(radial_integrals), derived.value))

\* lines 89-93: the check of the integrals against l, U_int and J_hund
ConsistencyCheck(l, radial_integrals, U_int, J_hund) ==
    IF radial_integrals # None /\ BothGiven(U_int, J_hund)
    THEN IF LengthInconsistent(l, Val(radial_integrals))
         THEN SlaterRaised("ValueError", "U_matrix: inconsistency in l and number of radial_integrals provided.", FALSE)
         ELSE WarnIfDifferent(radial_integrals, U_J_to_radial_integrals(l, Val(U_int), Val(J_hund)))
    ELSE SlaterReturned(radial_integrals, FALSE)

\* lines 89-93 on the outcome r of lines 87-88
CheckIntegrals(l, r, U_int, J_hund) ==
    IF r.status # "ok" THEN SlaterRaised(r.status, r.value, FALSE)
    ELSE ConsistencyCheck(l, r.value, U_int, J_hund)

\* "Check all necessary information is present and consistent"
SlaterValidate(l, radial_integrals, U_int, J_hund) ==
    IF MissingIntegrals(radial_integrals, U_int, J_hund)
    THEN SlaterRaised("ValueError", "U_matrix: provide either the radial_integrals or U_int and J_hund.", FALSE)
    ELSE CheckIntegrals(l, IntegralsOrDerived(l, radial_integrals, U_int, J_hund), U_int, J_hund)

\* angular_matrix_element(l, k, m1, m2, m3, m4) of every shell l and every
\* k = 2n that U_matrix_slater is called with, computed once
AngularDomain ==
    UNION {{<<l, 2 * n, m1, m2, m3, m4>> :
               n \in 0 .. (MaxSlaterL + 1), m1 \in -l .. l, m2 \in -l .. l, m3 \in -l .. l, m4 \in -l .. l} :
           l \in 0 .. MaxSlaterL}

AngularTable ==
    [x \in AngularDomain |-> angular_matrix_element(x[1], x[2], x[3], x[4], x[5], x[6])]

\* sum over n, F = radial_integrals[n], k = 2n of F * angular_matrix_element
RECURSIVE SlaterSumFrom(_, _, _, _, _, _, _)
SlaterSumFrom(n, l, radial_integrals, m1, m2, m3, m4) ==
    IF n >= Len(radial_integrals) THEN NZero
    ELSE NAdd(NMul(radial_integrals[n + 1], AngularTable[<<l, 2 * n, m1, m2, m3, m4>>]),
              SlaterSumFrom(n + 1, l, radial_integrals, m1, m2, m3, m4))

\* U^{spherical}_{m1 m2 m3 m4}, stored at [m1+l, m2+l, m3+l, m4+l]
SphericalTensor(l, radial_integrals) ==
    Array(<<2 * l + 1, 2 * l + 1, 2 * l + 1, 2 * l + 1>>,
          [t \in Indices(<<2 * l + 1, 2 * l + 1, 2 * l + 1, 2 * l + 1>>) |->
              SlaterSumFrom(0, l, radial_integrals, t[1] - l, t[2] - l, t[3] - l, t[4] - l)])

\* if basis == "cubic": T = spherical_to_cubic(l)
BasisMatrix(l, basis, T) ==
    IF basis = "cubic" THEN SomeOf(spherical_to_cubic(l, "triqs")) ELSE Returned(T)

\* "Transform from spherical basis if needed", B the outcome of line 107
SlaterTransform(U_matrix, basis, B, warned) ==
    IF B.status # "ok" THEN SlaterRaised(B.status, B.value, warned)
    ELSE IF basis = "other" /\ B.value = None
    THEN SlaterRaised("ValueError", "U_matrix: provide T for other bases.", warned)
    ELSE IF B.value # None
    THEN SlaterReturned(transform_U_matrix(U_matrix, Val(B.value)), warned)
    ELSE SlaterReturned(U_matrix, warned)

\* lines 95-112 on the outcome "checked" of the validation
SlaterBuild(l, checked, basis, T) ==
    IF checked.status # "ok" THEN checked
    ELSE IF checked.value = None
    THEN SlaterRaised("TypeError", "'NoneType' object is not iterable", checked.warning)
    ELSE SlaterTransform(SphericalTensor(l, Val(checked.value)), basis,
                         BasisMatrix(l, basis, T), checked.warning)

U_matrix_slater(l, radial_integrals, U_int, J_hund, basis, T) ==
    SlaterBuild(l, SlaterValidate(l, radial_integrals, U_int, J_hund), basis, T)

(***************************************************************************)
(* The calls.  Every call starts from the idle state, or is handed the     *)
(* value an earlier call returned.                                         *)
(***************************************************************************)
JRange == 0 .. MaxJ

MRange == -MaxJ .. MaxJ

ShellRange == 0 .. MaxShell

\* values drawn for U_int, J_hund, Up_int, Jc_hund and the radial integrals
Scalars == {NZero, NInt(1), NInt(4), NRat(Rat(7, 10))}

UnknownConvention == "abinit"

\* the d-manifold has 2*2+1 orbitals
DSize == 2 * 2 + 1

\* an input array of the given rank whose entries tell the index tuples apart
RECURSIVE Encode(_)
Encode(t) == IF t = << >> THEN 0 ELSE t[Len(t)] + DSize * Encode(SubSeq(t, 1, Len(t) - 1))

SeedArray(rank, seed) ==
    LET shape == [k \in 1 .. rank |-> DSize]
    IN  [shape |-> shape, at |-> [t \in Indices(shape) |-> NInt(seed + Encode(t))]]

Call(f, a, r, o) ==
    /\ fn' = f
    /\ args' = a
    /\ ret' = r
    /\ origin' = o

Init ==
    /\ fn = "none"
    /\ args = << >>
    /\ ret = None
    /\ origin = None

CallThreeJ ==
    \E j1 \in JRange, j2 \in JRange, j3 \in JRange, m1 \in MRange, m2 \in MRange, m3 \in MRange :
        /\ fn = "none"
        /\ Call("three_j_symbol", [j1 |-> j1, m1 |-> m1, j2 |-> j2, m2 |-> m2, j3 |-> j3, m3 |-> m3],
                Returned(three_j_symbol(j1, m1, j2, m2, j3, m3)), None)

CallClebschGordan ==
    \E j1 \in JRange, j2 \in JRange, j3 \in JRange, m1 \in MRange, m2 \in MRange, m3 \in MRange :
        /\ fn = "none"
        /\ Call("clebsch_gordan", [j1 |-> j1, m1 |-> m1, j2 |-> j2, m2 |-> m2, j3 |-> j3, m3 |-> m3],
                Returned(clebsch_gordan(j1, m1, j2, m2, j3, m3)), None)

CallUJToRadial ==
    \E l \in -1 .. MaxShell, U_int \in Scalars, J_hund \in Scalars :
        /\ fn = "none"
        /\ Call("U_J_to_radial_integrals", [l |-> l, U_int |-> U_int, J_hund |-> J_hund],
                U_J_to_radial_integrals(l, U_int, J_hund), None)

\* radial_integrals_to_U_J on integrals given afresh
CallRadialToUJ ==
    \E l \in -1 .. MaxShell, n \in 2 .. 4, F0 \in Scalars, F1 \in Scalars :
        /\ fn = "none"
        /\ LET F == [k \in 1 .. n |-> IF k = 1 THEN F0 ELSE F1]
           IN  Call("radial_integrals_to_U_J", [l |-> l, F |-> F],
                    radial_integrals_to_U_J(l, F), None)

\* radial_integrals_to_U_J on what U_J_to_radial_integrals returned, same l
CallRadialToUJOfResult ==
    /\ fn = "U_J_to_radial_integrals"
    /\ ret.status = "ok"
    /\ Call("radial_integrals_to_U_J", [l |-> args.l, F |-> ret.value],
            radial_integrals_to_U_J(args.l, ret.value), Some([fn |-> fn, args |-> args]))

CallKanamori ==
    \E n_orb \in 1 .. MaxOrb, U_int \in Scalars, J_hund \in Scalars,
       Up_int \in {None, Some(NInt(1)), Some(NInt(3))}, full_Uijkl \in BOOLEAN,
       Jc_hund \in {None, Some(NInt(5))} :
        /\ fn = "none"
        /\ Call("U_matrix_kanamori",
                [n_orb |-> n_orb, U_int |-> U_int, J_hund |-> J_hund, Up_int |-> Up_int,
                 full_Uijkl |-> full_Uijkl, Jc_hund |-> Jc_hund],
                U_matrix_kanamori(n_orb, U_int, J_hund, Up_int, full_Uijkl, Jc_hund), None)

\* reduce_4index_to_2index on the tensor U_matrix_kanamori returned
CallReduceOfResult ==
    /\ fn = "U_matrix_kanamori"
    /\ ret.status = "ok"
    /\ args.full_Uijkl
    /\ Call("reduce_4index_to_2index", [U_4index |-> ret.value],
            reduce_4index_to_2index(ret.value), Some([fn |-> fn, args |-> args]))

CallT2gSubmatrix ==
    \E rank \in {2, 4}, seed \in 0 .. MaxSeed, convention \in Conventions \cup {UnknownConvention} :
        /\ fn = "none"
        /\ Call("t2g_submatrix", [U |-> SeedArray(rank, seed), convention |-> convention],
                t2g_submatrix(SeedArray(rank, seed), convention), None)

CallEgSubmatrix ==
    \E rank \in {2, 4}, seed \in 0 .. MaxSeed, convention \in Conventions \cup {UnknownConvention} :
        /\ fn = "none"
        /\ Call("eg_submatrix", [U |-> SeedArray(rank, seed), convention |-> convention],
                eg_submatrix(SeedArray(rank, seed), convention), None)

CallSphericalToCubic ==
    \E l \in ShellRange, convention \in Conventions \cup {UnknownConvention} :
        /\ fn = "none"
        /\ Call("spherical_to_cubic", [l |-> l, convention |-> convention],
                spherical_to_cubic(l, convention), None)

\* the radial integrals drawn for shell l: None, integer sequences of length
\* l, l+1 and l+2, and the integrals of (U_int, J_hund) = (4, 1)
SlaterIntegralChoices(l) ==
    {None}
    \cup {Some([n \in 1 .. len |-> NInt(n)]) : len \in {l, l + 1, l + 2}}
    \cup {Some([n \in 1 .. (l + 1) |-> NInt(4 * n)])}
    \cup (IF l \in {1, 2, 3}
          THEN {Some(U_J_to_radial_integrals(l, NInt(4), NInt(1)).value)} ELSE {})

\* a transformation matrix given by the caller: 2j on the anti-diagonal
GivenT(l) ==
    LET d == 2 * l + 1
    IN  [shape |-> <<d, d>>,
         at    |-> [t \in Indices(<<d, d>>) |->
                       IF t[1] + t[2] = d - 1 THEN NScale(RatInt(2), NImag) ELSE NZero]]

Bases == {"spherical", "cubic", "other", "cubik"}

CallSlater ==
    \E l \in 0 .. MaxSlaterL, U_int \in {None, Some(NInt(4))}, J_hund \in {None, Some(NInt(1))},
       basis \in Bases, withT \in BOOLEAN :
        \E radial_integrals \in SlaterIntegralChoices(l) :
            /\ fn = "none"
            /\ LET T == IF withT THEN Some(GivenT(l)) ELSE None
               IN  Call("U_matrix_slater",
                        [l |-> l, radial_integrals |-> radial_integrals, U_int |-> U_int,
                         J_hund |-> J_hund, basis |-> basis, T |-> T],
                        U_matrix_slater(l, radial_integrals, U_int, J_hund, basis, T), None)

\* angular_matrix_element called on its own, k = 0 .. 2l+1 (odd k as well)
CallAngularMatrixElement ==
    \E l \in 0 .. MaxSlaterL :
        \E k \in 0 .. (2 * l + 1), m1 \in -l .. l, m2 \in -l .. l, m3 \in -l .. l, m4 \in -l .. l :
            /\ fn = "none"
            /\ Call("angular_matrix_element",
                    [l |-> l, k |-> k, m1 |-> m1, m2 |-> m2, m3 |-> m3, m4 |-> m4],
                    Returned(angular_matrix_element(l, k, m1, m2, m3, m4)), None)

NextSlater == CallSlater

SpecSlater == Init /\ [][NextSlater]_vars

NextSymmetry == CallAngularMatrixElement \/ CallSlater

SpecSymmetry == Init /\ [][NextSymmetry]_vars

NextAngular == CallThreeJ \/ CallClebschGordan

SpecAngular == Init /\ [][NextAngular]_vars

NextRadial == CallUJToRadial \/ CallRadialToUJ \/ CallRadialToUJOfResult

SpecRadial == Init /\ [][NextRadial]_vars

NextKanamori == CallKanamori \/ CallReduceOfResult

SpecKanamori == Init /\ [][NextKanamori]_vars

NextCubic == CallT2gSubmatrix \/ CallEgSubmatrix \/ CallSphericalToCubic

SpecCubic == Init /\ [][NextCubic]_vars

(***************************************************************************)
(* Properties.                                                             *)
(***************************************************************************)

SlaterCalled == fn = "U_matrix_slater"

LengthMessage == "U_matrix: inconsistency in l and number of radial_integrals provided."

\* C1: U_matrix_slater called without radial_integrals and without both U_int
\* and J_hund (neither, or only one of them) fails with the ValueError of its
\* validation step.
C1_AbsentIntegralsRejected ==
    (SlaterCalled /\ args.radial_integrals = None /\ ~BothGiven(args.U_int, args.J_hund)) =>
        (ret.status = "ValueError"
         /\ ret.value = "U_matrix: provide either the radial_integrals or U_int and J_hund.")

\* C2: with basis = "spherical" the returned tensor is the untransformed
\* sum_k F_k * angular_matrix_element(l,k,m1,m2,m3,m4), for every value of T.
C2_SphericalIsUntransformed ==
    (SlaterCalled /\ args.basis = "spherical" /\ args.radial_integrals # None /\ ret.status = "ok") =>
        ret.value = SphericalTensor(args.l, Val(args.radial_integrals))

\* radial_integrals of length l+1 supplied together with U_int and J_hund
FullySpecified ==
    /\ SlaterCalled
    /\ args.radial_integrals # None
    /\ Len(Val(args.radial_integrals)) = args.l + 1
    /\ BothGiven(args.U_int, args.J_hund)

\* the outcome of the call of the state with radial_integrals supplied alone
AloneOutcome ==
    U_matrix_slater(args.l, args.radial_integrals, None, None, args.basis, args.T)

\* C3 as stated: for every l, radial_integrals of length l+1 supplied with
\* U_int and J_hund gives the outcome of the same radial_integrals alone.
C3_PrecedenceForEveryL ==
    FullySpecified =>
        (ret.status = AloneOutcome.status /\ ret.value = AloneOutcome.value)

\* C3: for l in {1,2,3}, radial_integrals of length l+1 supplied with U_int
\* and J_hund gives the outcome of the same radial_integrals alone, and the
\* warning is printed exactly when they differ from the integrals of U_int
\* and J_hund.
C3_PrecedenceForSupportedL ==
    (FullySpecified /\ args.l \in {1, 2, 3}) =>
        /\ ret.status = AloneOutcome.status
        /\ ret.value = AloneOutcome.value
        /\ ret.warning =
              (Val(args.radial_integrals)
                  # U_J_to_radial_integrals(args.l, Val(args.U_int), Val(args.J_hund)).value)

C3_Witness ==
    /\ FullySpecified
    /\ args.l = 1
    /\ ret.status = "ok"
    /\ ret.warning
    /\ ret.value = SphericalTensor(1, Val(args.radial_integrals))

\* radial_integrals supplied with a length other than l+1
WrongLength ==
    /\ SlaterCalled
    /\ args.radial_integrals # None
    /\ Len(Val(args.radial_integrals)) # args.l + 1

\* C4 as stated: a radial_integrals sequence whose length differs from l+1
\* is rejected with a ValueError whatever the other arguments are.
C4_WrongLengthAlwaysRejected ==
    WrongLength => ret.status = "ValueError"

\* C4: a radial_integrals sequence whose length differs from l+1 is rejected
\* with the length ValueError when both U_int and J_hund are given; otherwise
\* its length is not checked and the tensor is built from all its entries.
C4_WrongLengthRejectedWithUJ ==
    WrongLength =>
        IF BothGiven(args.U_int, args.J_hund)
        THEN ret.status = "ValueError" /\ ret.value = LengthMessage
        ELSE /\ (ret.status = "ok" \/ ret.value # LengthMessage)
             /\ (args.basis = "spherical" /\ args.T = None) =>
                    (ret.status = "ok"
                     /\ ret.value = SphericalTensor(args.l, Val(args.radial_integrals)))

C4_Witness ==
    /\ WrongLength
    /\ BothGiven(args.U_int, args.J_hund)
    /\ Len(Val(args.radial_integrals)) = args.l
    /\ args.l = 1
    /\ ret.status = "ValueError"
    /\ ret.value = LengthMessage

\* C5: U_matrix_slater never returns a tensor for a basis name outside
\* {"spherical", "cubic", "other"}.
C5_UnknownBasisRejected ==
    (SlaterCalled /\ args.basis \notin {"spherical", "cubic", "other"}) => ret.status # "ok"

\* the matrix product T * conj(T)^T, entry (i, j)
RECURSIVE RowDotFrom(_, _, _, _)
RowDotFrom(T, i, j, k) ==
    IF k >= T.shape[2] THEN NZero
    ELSE NAdd(NMul(T.at[<<i, k>>], NConj(T.at[<<j, k>>])), RowDotFrom(T, i, j, k + 1))

IsUnitary(T) ==
    \A i \in 0 .. (T.shape[1] - 1), j \in 0 .. (T.shape[1] - 1) :
        RowDotFrom(T, i, j, 0) = IF i = j THEN NOne ELSE NZero

\* C6: every matrix spherical_to_cubic returns is unitary: T * conj(T)^T is
\* the identity (rows of norm 1, pairwise orthogonal).
C6_CubicIsUnitary ==
    (fn = "spherical_to_cubic" /\ ret.status = "ok") => IsUnitary(ret.value)

\* C7: clebsch_gordan returns sqrt(2*j3+1) * s * three_j_symbol((j1,m1),
\* (j2,m2),(j3,-m3)) with s = -1 exactly when j1 - j2 + m3 is odd.
C7_ClebschGordanPhase ==
    fn = "clebsch_gordan" =>
        ret.value = NMul(NScale(RatInt(Parity(args.j1 - args.j2 + args.m3)),
                                NSqrt(RatInt(2 * args.j3 + 1))),
                         three_j_symbol(args.j1, args.m1, args.j2, args.m2, args.j3, -args.m3))

\* C8: with Jc_hund left at its default, reduce_4index_to_2index of the full
\* Kanamori tensor is the pair (U, Uprime) of the two-index call with the
\* same arguments: U[m,m] = 0, U[m,mp] = Up_int - J_hund, Uprime[m,mp] =
\* Up_int for m # mp, Uprime[m,m] = U_int.
C8_ReduceOfKanamori ==
    (fn = "reduce_4index_to_2index" /\ origin # None /\ Val(origin).args.Jc_hund = None) =>
        LET a  == Val(origin).args
            Up == IF a.Up_int = None THEN NSub(a.U_int, NScale(RatInt(2), a.J_hund))
                  ELSE Val(a.Up_int)
        IN  /\ ret = U_matrix_kanamori(a.n_orb, a.U_int, a.J_hund, a.Up_int, FALSE, None)
            /\ ret.status = "ok"
            /\ ret.value[1].shape = <<a.n_orb, a.n_orb>>
            /\ ret.value[2].shape = <<a.n_orb, a.n_orb>>
            /\ \A m \in 0 .. (a.n_orb - 1), mp \in 0 .. (a.n_orb - 1) :
                  /\ ret.value[1].at[<<m, mp>>] = IF m = mp THEN NZero ELSE NSub(Up, a.J_hund)
                  /\ ret.value[2].at[<<m, mp>>] = IF m = mp THEN a.U_int ELSE Up

C8_Witness ==
    /\ fn = "reduce_4index_to_2index"
    /\ origin # None
    /\ Val(origin).args.Jc_hund = None
    /\ Val(origin).args.Up_int = None
    /\ Val(origin).args.n_orb = 3
    /\ ret.value[1].at[<<0, 2>>] = NInt(1)
    /\ ret.value[2].at[<<1, 1>>] = NInt(4)

\* C9: for l in {1,2,3}, U_J_to_radial_integrals returns l+1 integrals and
\* radial_integrals_to_U_J of them returns (U_int, J_hund); for every other
\* l both conversions raise ValueError.
C9_RadialRoundTrip ==
    /\ fn = "U_J_to_radial_integrals" =>
          IF args.l \in {1, 2, 3}
          THEN ret.status = "ok" /\ Len(ret.value) = args.l + 1
          ELSE ret.status = "ValueError"
    /\ (fn = "radial_integrals_to_U_J" /\ args.l \notin {1, 2, 3}) => ret.status = "ValueError"
    /\ (fn = "radial_integrals_to_U_J" /\ origin # None) =>
          /\ Val(origin).args.l \in {1, 2, 3}
          /\ ret = Returned(<<Val(origin).args.U_int, Val(origin).args.J_hund>>)

C9_Witness ==
    /\ fn = "radial_integrals_to_U_J"
    /\ origin # None
    /\ args.l = 2
    /\ Len(args.F) = 3
    /\ args.F[2] = NRat(Rat(980, 163))
    /\ ret = Returned(<<NInt(4), NRat(Rat(7, 10))>>)

\* the position (from 0) of an orbital in an ordering
PositionIn(names, orbital) == (CHOOSE k \in 1 .. Len(names) : names[k] = orbital) - 1

PositionsOf(convention, orbitals) ==
    [k \in 1 .. Len(orbitals) |-> PositionIn(CubicNamesD(convention), orbitals[k])]

\* the members of a set of integers in ascending order
RECURSIVE Ascending(_)
Ascending(S) ==
    IF S = {} THEN << >>
    ELSE LET lo == CHOOSE x \in S : \A y \in S : x <= y
         IN  <<lo>> \o Ascending(S \ {lo})

Range(s) == {s[k] : k \in 1 .. Len(s)}

\* output[i0,...,in] = input[s[i0],...,s[in]]
Gather(U, s) ==
    LET shape == [k \in 1 .. Len(U.shape) |-> Len(s)]
    IN  [shape |-> shape,
         at    |-> [t \in Indices(shape) |-> U.at[[k \in 1 .. Len(t) |-> s[t[k] + 1]]]]]

\* the names of the t2g and eg orbitals (cubic_names('t2g'), cubic_names('eg'))
T2gOrbitals == <<"xy", "yz", "xz">>

EgOrbitals == <<"z^2", "x^2-y^2">>

\* C10 as stated: the tuple t2g_submatrix applies to every axis is the
\* positions of (xy, yz, xz), the one of eg_submatrix the positions of
\* (z^2, x^2-y^2), in the convention's ordering.
C10_TupleIsPositionsInNamedOrder ==
    /\ (fn = "t2g_submatrix" /\ args.convention \in Conventions) =>
          ret = Returned(Gather(args.U, PositionsOf(args.convention, T2gOrbitals)))
    /\ (fn = "eg_submatrix" /\ args.convention \in Conventions) =>
          ret = Returned(Gather(args.U, PositionsOf(args.convention, EgOrbitals)))

\* C10 amended: the tuple is the positions of the orbitals {xy, yz, xz}
\* (of {z^2, x^2-y^2}) in ascending order, that is in the convention's own
\* order; the two index sets are disjoint and cover 0..4; the same tuple is
\* applied to every axis of a 2- or 4-index input.
C10_TupleIsAscendingPositions ==
    /\ (fn = "t2g_submatrix" /\ args.convention \in Conventions) =>
          /\ ret = Returned(Gather(args.U, Ascending(Range(PositionsOf(args.convention, T2gOrbitals)))))
          /\ ret.value.shape = [k \in 1 .. Len(args.U.shape) |-> 3]
    /\ (fn = "eg_submatrix" /\ args.convention \in Conventions) =>
          /\ ret = Returned(Gather(args.U, PositionsOf(args.convention, EgOrbitals)))
          /\ ret.value.shape = [k \in 1 .. Len(args.U.shape) |-> 2]
    /\ (fn \in {"t2g_submatrix", "eg_submatrix"} /\ args.convention \in Conventions) =>
          /\ Range(T2gIndex(args.convention)) \cap Range(EgIndex(args.convention)) = {}
          /\ Range(T2gIndex(args.convention)) \cup Range(EgIndex(args.convention)) = 0 .. 4

C10_Witness ==
    /\ fn = "t2g_submatrix"
    /\ args.convention = "wannier90"
    /\ Len(args.U.shape) = 4
    /\ ret.status = "ok"
    /\ ret.value.at[<<0, 1, 2, 0>>] = args.U.at[<<1, 2, 4, 1>>]
    /\ ret.value.at[<<0, 1, 2, 0>>] # args.U.at[<<4, 2, 1, 4>>]

\* the tensor U is unchanged by the exchange of its index pairs
\* (m1,m3) and (m2,m4)
PairExchangeSymmetric(U) ==
    \A t \in DOMAIN U.at : U.at[t] = U.at[<<t[2], t[1], t[4], t[3]>>]

\* C11: angular_matrix_element(l,k,m1,m2,m3,m4) equals
\* angular_matrix_element(l,k,m2,m1,m4,m3) for every l, k and m1..m4 in -l..l,
\* and the spherical-basis tensor U_matrix_slater returns satisfies
\* U[m1,m2,m3,m4] = U[m2,m1,m4,m3].
C11_PairExchangeSymmetry ==
    /\ fn = "angular_matrix_element" =>
           ret.value = angular_matrix_element(args.l, args.k, args.m2, args.m1, args.m4, args.m3)
    /\ (SlaterCalled /\ args.basis = "spherical" /\ args.T = None /\ ret.status = "ok") =>
           PairExchangeSymmetric(ret.value)

\* a nonzero element whose exchanged arguments are other arguments
C11_Witness ==
    /\ fn = "angular_matrix_element"
    /\ args.l = 1 /\ args.k = 2
    /\ args.m1 # args.m2
    /\ args.m1 # args.m3
    /\ ret.value # NZero
    /\ ret.value = angular_matrix_element(args.l, args.k, args.m2, args.m1, args.m4, args.m3)

\* the factorial arguments of the call of the state
CallFactorialArguments ==
    FactorialArguments(args.j1, args.m1, args.j2, args.m2, args.j3, args.m3)

\* C12: for j1, j2, j3 >= 0, three_j_symbol returns 0 without evaluating a
\* factorial when m1+m2+m3 # 0, some |m_i| > j_i or j3 is outside
\* |j1-j2| .. j1+j2; otherwise every factorial argument it evaluates (four of
\* the triangle coefficient, six j_i -/+ m_i, six for each t in t_min..t_max)
\* is >= 0.
C12_FactorialArgumentsNonNegative ==
    (fn = "three_j_symbol" /\ args.j1 >= 0 /\ args.j2 >= 0 /\ args.j3 >= 0) =>
        IF \/ args.m1 + args.m2 + args.m3 # 0
           \/ Abs(args.m1) > args.j1 \/ Abs(args.m2) > args.j2 \/ Abs(args.m3) > args.j3
           \/ args.j3 \notin Abs(args.j1 - args.j2) .. (args.j1 + args.j2)
        THEN ret.value = NZero /\ CallFactorialArguments = {}
        ELSE /\ \A a \in CallFactorialArguments : a >= 0
             /\ TriangleArguments(args.j1, args.j2, args.j3) \subseteq CallFactorialArguments
             /\ MArguments(args.j1, args.m1, args.j2, args.m2, args.j3, args.m3)
                    \subseteq CallFactorialArguments
             /\ \A t \in Max3(args.j2 - args.j3 - args.m1, args.j1 - args.j3 + args.m2, 0)
                           .. Min3(args.j1 - args.m1, args.j2 + args.m2, args.j1 + args.j2 - args.j3) :
                    TArguments(t, args.j1, args.m1, args.j2, args.m2, args.j3, args.m3)
                        \subseteq CallFactorialArguments

\* a symbol that does not vanish, with more than one term in the sum over t
\* and a factorial argument equal to 0
C12_Witness ==
    /\ fn = "three_j_symbol"
    /\ ret.value # NZero
    /\ t_max(args.j1, args.m1, args.j2, args.m2, args.j3, args.m3)
          > t_min(args.j1, args.m1, args.j2, args.m2, args.j3, args.m3)
    /\ 0 \in CallFactorialArguments
    /\ \A a \in CallFactorialArguments : a >= 0

=============================================================================
